---- MODULE Spec2Model ----
(***************************************************************************)
(* Lyrics API: the request handlers of the SQLite variant (src/index.js)   *)
(* and of the Postgres variant (src/unnamed/part_000, lines 511-748) as    *)
(* operations on the two tables they read and write.                       *)
(*                                                                         *)
(* A handler is an operator from (store, request) to a result record       *)
(*   [db, status, body, stmts]                                             *)
(* where stmts is the sequence of SQL statements the handler executed      *)
(* before it answered.  The actions apply the handlers to the store; what  *)
(* a request is answered is the value of its handler at the store.         *)
(***************************************************************************)
EXTENDS Integers, Sequences, FiniteSets, TLC

\* ------------------------------------------------------------------ bounds
\* Largest id the AUTOINCREMENT / serial counters may hand out in the model.
MaxPerformerId == 3
MaxLyricId == 3
\* The same for the serial counters of the Postgres tables.
MaxPgPerformerId == 2
MaxPgLyricId == 2

\* ------------------------------------------------------- program constants
NameMax == 100
WordsMax == 500
TitleMax == 100

\* ------------------------------------------------------------- JS values
\* A JavaScript value as the handlers see it in req.body / req.params:
\* t is the typeof class, s the characters of a string, n the integer part
\* of a number, f marks a number that is no integer ("frac") or NaN ("nan").
Undef == [t |-> "undefined", s |-> <<>>, n |-> 0, f |-> ""]
Null == [t |-> "null", s |-> <<>>, n |-> 0, f |-> ""]
Str(chars) == [t |-> "string", s |-> chars, n |-> 0, f |-> ""]
Num(i) == [t |-> "number", s |-> <<>>, n |-> i, f |-> ""]
Frac(i) == [t |-> "number", s |-> <<>>, n |-> i, f |-> "frac"]
NaN == [t |-> "number", s |-> <<>>, n |-> 0, f |-> "nan"]
True == [t |-> "boolean", s |-> <<>>, n |-> 1, f |-> ""]
Obj == [t |-> "object", s |-> <<>>, n |-> 0, f |-> ""]

\* !v is FALSE: v is truthy.
Truthy(v) ==
    CASE v.t = "string" -> Len(v.s) > 0
      [] v.t = "number" -> v.f = "frac" \/ (v.f = "" /\ v.n # 0)
      [] v.t = "boolean" -> v.n = 1
      [] v.t = "object" -> TRUE
      [] OTHER -> FALSE

\* v.length > max (undefined > max is false for a value without length).
LongerThan(v, max) == v.t = "string" /\ Len(v.s) > max

\* Number.isInteger(v)
IsInteger(v) == v.t = "number" /\ v.f = ""

\* v ?? null
OrNull(v) == IF v.t = "undefined" THEN Null ELSE v

\* Destructuring default: `x = dflt` takes dflt only when x is undefined.
Default(v, dflt) == IF v.t = "undefined" THEN dflt ELSE v

\* --------------------------------------------------------------- strings
Rep(c, k) == [i \in 1..k |-> c]

IsSpace(c) == c = " "

SetMin(S) == CHOOSE i \in S : \A j \in S : i <= j
SetMax(S) == CHOOSE i \in S : \A j \in S : j <= i

\* String.prototype.trim: the string without its leading and trailing
\* whitespace.
Trim(s) ==
    LET inked == {i \in 1..Len(s) : ~IsSpace(s[i])}
    IN  IF inked = {} THEN <<>> ELSE SubSeq(s, SetMin(inked), SetMax(inked))

\* The characters the model's strings are made of, in code-point order.
Alphabet == <<" ", ".", "0", "1", "2", "3", "4", "5", "A", "G", "H", "N", "P",
              "S", "a", "b", "c", "d", "e", "g", "h", "i", "l", "n", "o", "p",
              "r", "s", "t", "u", "v", "w", "x">>

Code(c) == CHOOSE i \in 1..Len(Alphabet) : Alphabet[i] = c

LowerChar(c) ==
    CASE c = "A" -> "a" [] c = "G" -> "g" [] c = "H" -> "h" [] c = "N" -> "n"
      [] c = "P" -> "p" [] c = "S" -> "s" [] OTHER -> c

\* lower(name)
Lower(s) == [i \in 1..Len(s) |-> LowerChar(s[i])]

\* s < t in the byte order SQLite's BINARY collation compares TEXT by.
StrLess(s, t) ==
    LET n == IF Len(s) < Len(t) THEN Len(s) ELSE Len(t)
        differ == {i \in 1..n : s[i] # t[i]}
    IN  IF differ = {} THEN Len(s) < Len(t)
        ELSE Code(s[SetMin(differ)]) < Code(t[SetMin(differ)])

Digits == <<"0", "1", "2", "3", "4", "5">>
IsDigit(c) == \E i \in 1..Len(Digits) : Digits[i] = c
DigitVal(c) == (CHOOSE i \in 1..Len(Digits) : Digits[i] = c) - 1

RECURSIVE DigitsVal(_)
DigitsVal(s) ==
    IF s = <<>> THEN 0
    ELSE 10 * DigitsVal(SubSeq(s, 1, Len(s) - 1)) + DigitVal(s[Len(s)])

AllDigits(s) == s # <<>> /\ \A i \in 1..Len(s) : IsDigit(s[i])

\* Number(req.params.id): the numeric value of a path parameter.
ToNumber(s) ==
    LET u == Trim(s)
        dot == {i \in 1..Len(u) : u[i] = "."}
    IN  IF AllDigits(u) THEN Num(DigitsVal(u))
        ELSE IF /\ Len(u) > 1
                /\ u[1] = "-"
                /\ AllDigits(Tail(u))
             THEN Num(0 - DigitsVal(Tail(u)))
        ELSE IF /\ Cardinality(dot) = 1
                /\ LET d == CHOOSE i \in dot : TRUE
                   IN  /\ AllDigits(SubSeq(u, 1, d - 1))
                       /\ AllDigits(SubSeq(u, d + 1, Len(u)))
             THEN LET d == CHOOSE i \in dot : TRUE
                  IN  IF DigitsVal(SubSeq(u, d + 1, Len(u))) = 0
                      THEN Num(DigitsVal(SubSeq(u, 1, d - 1)))
                      ELSE Frac(DigitsVal(SubSeq(u, 1, d - 1)))
        ELSE NaN

\* The decimal text of a small id, as a client writes it into a path.
IdText(i) == <<Digits[i + 1]>>


\* ------------------------------------------------------------- responses
Msg(text) == [message |-> text]
Err(text) == [error |-> text]
NoBody == [empty |-> TRUE]

\* What a handler did: the store it leaves, the status and body it sent, the
\* SQL statements it executed (in order) before sending.  end tells how the
\* request ended: "sent" is one response sent.
Res(db, status, body, stmts) ==
    [db |-> db, status |-> status, body |-> body, stmts |-> stmts,
     end |-> "sent"]

\* A path that sends a second response after the one of r.
SentTwice(r) == [r EXCEPT !.end = "twice"]

\* A path that ends without a response: a promise rejected with nobody to
\* catch it, which takes the process down.
Unhandled(db, stmts) ==
    [db |-> db, status |-> 0, body |-> [empty |-> TRUE], stmts |-> stmts,
     end |-> "crash"]

\* The rows of S as a sequence ordered by Less (a strict total order on S).
SortBy(S, less) ==
    [i \in 1..Cardinality(S) |->
        CHOOSE x \in S : Cardinality({y \in S : less[y, x]}) = i - 1]

\* ============================================================ SQLite variant
\* String literals of the seed data.
Nirvana == Str(<<"N", "i", "r", "v", "a", "n", "a">>)
Grunge == Str(<<"G", "r", "u", "n", "g", "e">>)
Adele == Str(<<"A", "d", "e", "l", "e">>)
Pop == Str(<<"P", "o", "p">>)
SeedWords1 == Str(<<"H", "e", "r", "e", " ", "w", "e", " ", "a", "r", "e", " ", "n", "o", "w", ",", " ", "e", "n", "t", "e", "r", "t", "a", "i", "n", " ", "u", "s", ".", ".", ".">>)
SeedTitle1 == Str(<<"S", "m", "e", "l", "l", "s", " ", "L", "i", "k", "e", " ", "T", "e", "e", "n", " ", "S", "p", "i", "r", "i", "t">>)
SeedWords2 == Str(<<"H", "e", "l", "l", "o", ",", " ", "i", "t", "'", "s", " ", "m", "e", ".", ".", ".">>)
SeedTitle2 == Str(<<"H", "e", "l", "l", "o">>)
En == Str(<<"e", "n">>)

\* The database file after the schema and the seed block have run on an
\* empty file: two performers, one lyric each, both sqlite_sequence counters
\* at 2.
SeedDb ==
    [Performers |->
        {[PerformerId |-> 1, Name |-> Nirvana, Genre |-> Grunge],
         [PerformerId |-> 2, Name |-> Adele, Genre |-> Pop]},
     Lyrics |->
        {[LyricId |-> 1, Words |-> SeedWords1, SongTitle |-> SeedTitle1,
          Language |-> En, SpotLink |-> Null, ImageUrl |-> Null,
          PreviewLink |-> Null, PerformerId |-> 1],
         [LyricId |-> 2, Words |-> SeedWords2, SongTitle |-> SeedTitle2,
          Language |-> En, SpotLink |-> Null, ImageUrl |-> Null,
          PreviewLink |-> Null, PerformerId |-> 2]},
     seqPerformers |-> 2,
     seqLyrics |-> 2]

mapLyric(row) ==
    [lyricId |-> row.LyricId, words |-> row.Words, songTitle |-> row.SongTitle,
     language |-> row.Language, spotLink |-> row.SpotLink,
     imageUrl |-> row.ImageUrl, previewLink |-> row.PreviewLink,
     performerId |-> row.PerformerId]

mapPerformer(row) ==
    [performerId |-> row.PerformerId, name |-> row.Name, genre |-> row.Genre]

\* WHERE PerformerId = ? / WHERE LyricId = ? with a bound JS number: only an
\* integer value equals a stored id.
PerformerRows(db, v) == {r \in db.Performers : IsInteger(v) /\ r.PerformerId = v.n}
LyricRows(db, v) == {r \in db.Lyrics : IsInteger(v) /\ r.LyricId = v.n}
LyricsOf(db, v) == {r \in db.Lyrics : IsInteger(v) /\ r.PerformerId = v.n}

\* better-sqlite3 binds numbers, strings, bigints, buffers and null; run()
\* throws a TypeError for any other value, before the statement executes.
Bindable(v) == v.t # "boolean"

\* An exception thrown out of a handler reaches the error handler: 500 with a
\* fixed message.
SqFail(db, stmts) == Res(db, 500, Msg("Internal server error"), stmts)

\* ORDER BY Name; rows of equal Name come in rowid order.
NameLess(a, b) ==
    \/ StrLess(a.Name.s, b.Name.s)
    \/ (a.Name.s = b.Name.s /\ a.PerformerId < b.PerformerId)

\* ORDER BY LyricId DESC
LyricIdDesc(a, b) == a.LyricId > b.LyricId

\* GET /api/performers
SqListPerformers(db) ==
    LET rows == SortBy(db.Performers,
                       [a, b \in db.Performers |-> NameLess(a, b)])
    IN  Res(db, 200, [i \in 1..Len(rows) |-> mapPerformer(rows[i])],
            <<"SELECT Performers">>)

\* GET /api/performers/:id
SqGetPerformer(db, param) ==
    LET id == ToNumber(param)
        rows == PerformerRows(db, id)
    IN  IF rows = {}
        THEN Res(db, 404, Msg("Performer not found"), <<"SELECT Performers">>)
        ELSE Res(db, 200, mapPerformer(CHOOSE r \in rows : TRUE),
                 <<"SELECT Performers">>)

\* POST /api/performers on a table without AUTOINCREMENT: the new rowid is
\* one more than the largest stored.
SqPostPerformerMaxRowid(db, body) ==
    IF ~Truthy(body.name) \/ LongerThan(body.name, NameMax)
    THEN Res(db, 400, Msg("name is verplicht (<= 100 chars)"), <<>>)
    ELSE IF ~Bindable(body.name) \/ ~Bindable(body.genre)
    THEN SqFail(db, <<"INSERT Performers">>)
    ELSE LET ids == {r.PerformerId : r \in db.Performers}
             id == IF ids = {} THEN 1 ELSE SetMax(ids) + 1
             row == [PerformerId |-> id, Name |-> body.name,
                     Genre |-> OrNull(body.genre)]
             db2 == [db EXCEPT !.Performers = @ \cup {row},
                               !.seqPerformers = id]
         IN  Res(db2, 201, mapPerformer(row),
                 <<"INSERT Performers", "SELECT Performers">>)

\* POST /api/performers
SqPostPerformer(db, body) ==
    IF ~Truthy(body.name) \/ LongerThan(body.name, NameMax)
    THEN Res(db, 400, Msg("name is verplicht (<= 100 chars)"), <<>>)
    ELSE IF ~Bindable(body.name) \/ ~Bindable(body.genre)
    THEN SqFail(db, <<"INSERT Performers">>)
    ELSE LET id == db.seqPerformers + 1
             row == [PerformerId |-> id, Name |-> body.name,
                     Genre |-> OrNull(body.genre)]
             db2 == [db EXCEPT !.Performers = @ \cup {row},
                               !.seqPerformers = id]
             created == CHOOSE r \in PerformerRows(db2, Num(id)) : TRUE
         IN  Res(db2, 201, mapPerformer(created),
                 <<"INSERT Performers", "SELECT Performers">>)

\* PUT /api/performers/:id
SqPutPerformer(db, param, body) ==
    LET id == ToNumber(param)
        exists == PerformerRows(db, id)
    IN  IF exists = {}
        THEN Res(db, 404, Msg("Performer not found"), <<"SELECT Performers">>)
        ELSE IF ~Truthy(body.name) \/ LongerThan(body.name, NameMax)
        THEN Res(db, 400, Msg("name is verplicht (<= 100 chars)"),
                 <<"SELECT Performers">>)
        ELSE IF ~Bindable(body.name) \/ ~Bindable(body.genre)
        THEN SqFail(db, <<"SELECT Performers", "UPDATE Performers">>)
        ELSE LET db2 == [db EXCEPT !.Performers =
                            {IF r \in exists
                             THEN [r EXCEPT !.Name = body.name,
                                            !.Genre = OrNull(body.genre)]
                             ELSE r : r \in @}]
                 updated == CHOOSE r \in PerformerRows(db2, id) : TRUE
             IN  Res(db2, 200, mapPerformer(updated),
                     <<"SELECT Performers", "UPDATE Performers",
                       "SELECT Performers">>)

\* DELETE /api/performers/:id as it would run with the foreign key not
\* enforced (no ON DELETE RESTRICT, or foreign_keys left off).
SqDeletePerformerNoRestrict(db, param) ==
    LET id == ToNumber(param)
        rows == PerformerRows(db, id)
    IN  IF rows = {}
        THEN Res(db, 404, Msg("Performer not found"), <<"DELETE Performers">>)
        ELSE Res([db EXCEPT !.Performers = @ \ rows], 204, NoBody,
                 <<"DELETE Performers">>)

\* DELETE /api/performers/:id as it would run with ON DELETE CASCADE.
SqDeletePerformerCascade(db, param) ==
    LET id == ToNumber(param)
        rows == PerformerRows(db, id)
    IN  IF rows = {}
        THEN Res(db, 404, Msg("Performer not found"), <<"DELETE Performers">>)
        ELSE Res([db EXCEPT !.Performers = @ \ rows,
                            !.Lyrics = @ \ LyricsOf(db, id)],
                 204, NoBody, <<"DELETE Performers">>)

\* DELETE /api/performers/:id without the return in front of its 404: the
\* handler goes on to res.status(204).send().
SqDeletePerformerNoReturn(db, param) ==
    LET id == ToNumber(param)
        rows == PerformerRows(db, id)
    IN  IF rows # {} /\ LyricsOf(db, id) # {}
        THEN Res(db, 409,
                 Msg("Kan performer niet verwijderen: er zijn nog gekoppelde lyrics"),
                 <<"DELETE Performers">>)
        ELSE IF rows = {}
        THEN SentTwice(Res(db, 404, Msg("Performer not found"),
                           <<"DELETE Performers">>))
        ELSE Res([db EXCEPT !.Performers = @ \ rows], 204, NoBody,
                 <<"DELETE Performers">>)

\* DELETE /api/performers/:id.  The DELETE statement throws "FOREIGN KEY
\* constraint failed" when a Lyrics row references the performer (ON DELETE
\* RESTRICT, foreign_keys = ON); the handler answers that with 409.
SqDeletePerformer(db, param) ==
    LET id == ToNumber(param)
        rows == PerformerRows(db, id)
    IN  IF rows # {} /\ LyricsOf(db, id) # {}
        THEN Res(db, 409,
                 Msg("Kan performer niet verwijderen: er zijn nog gekoppelde lyrics"),
                 <<"DELETE Performers">>)
        ELSE IF rows = {}
        THEN Res(db, 404, Msg("Performer not found"), <<"DELETE Performers">>)
        ELSE Res([db EXCEPT !.Performers = @ \ rows], 204, NoBody,
                 <<"DELETE Performers">>)


\* GET /api/lyrics: every lyric joined with its performer, newest id first.
WithPerformer(db, l) ==
    LET p == CHOOSE r \in db.Performers : r.PerformerId = l.PerformerId
    IN  [lyric |-> mapLyric(l),
         performer |-> [performerId |-> p.PerformerId, name |-> p.Name,
                        genre |-> p.Genre]]

\* The rows of `Lyrics l JOIN Performers p ON p.PerformerId = l.PerformerId`.
Joined(db, rows) ==
    {l \in rows : \E r \in db.Performers : r.PerformerId = l.PerformerId}

SqListLyrics(db) ==
    LET rows == SortBy(Joined(db, db.Lyrics),
                       [a, b \in Joined(db, db.Lyrics) |-> LyricIdDesc(a, b)])
    IN  Res(db, 200, [i \in 1..Len(rows) |-> WithPerformer(db, rows[i])],
            <<"SELECT Lyrics JOIN Performers">>)

\* GET /api/lyrics?page=..&pageSize=..: the handler never reads req.query.
SqListLyricsPage(db, query) == SqListLyrics(db)

\* GET /api/lyrics/:id
SqGetLyric(db, param) ==
    LET id == ToNumber(param)
        rows == Joined(db, LyricRows(db, id))
    IN  IF rows = {}
        THEN Res(db, 404, Msg("Lyric not found"),
                 <<"SELECT Lyrics JOIN Performers">>)
        ELSE Res(db, 200, WithPerformer(db, CHOOSE r \in rows : TRUE),
                 <<"SELECT Lyrics JOIN Performers">>)

\* GET /api/performers/:id/lyrics
SqListLyricsOf(db, param) ==
    LET rows == SortBy(LyricsOf(db, ToNumber(param)),
                       [a, b \in LyricsOf(db, ToNumber(param)) |-> LyricIdDesc(a, b)])
    IN  Res(db, 200, [i \in 1..Len(rows) |-> mapLyric(rows[i])],
            <<"SELECT Lyrics">>)

\* The body fields POST and PUT /api/lyrics bind as they come.
LyricTextFields ==
    {"words", "songTitle", "language", "spotLink", "imageUrl", "previewLink"}

\* The four body checks POST and PUT /api/lyrics share; "" when all pass.
LyricInvalid(words, songTitle, language, performerId) ==
    IF ~Truthy(words) \/ LongerThan(words, WordsMax)
    THEN "words is verplicht (<= 500 chars)"
    ELSE IF ~Truthy(songTitle) \/ LongerThan(songTitle, TitleMax)
    THEN "songTitle is verplicht (<= 100 chars)"
    ELSE IF ~Truthy(language)
    THEN "language is verplicht"
    ELSE IF ~IsInteger(performerId)
    THEN "performerId is verplicht (integer)"
    ELSE ""

\* POST /api/lyrics that looks the performer up before it checks the body.
SqPostLyricLooksUpFirst(db, body) ==
    LET bad == LyricInvalid(body.words, body.songTitle, body.language,
                            body.performerId)
    IN  IF PerformerRows(db, body.performerId) = {} /\ bad = ""
        THEN Res(db, 404, Msg("Performer bestaat niet"), <<"SELECT Performers">>)
        ELSE IF bad # ""
        THEN Res(db, 400, Msg(bad), <<"SELECT Performers">>)
        ELSE LET id == db.seqLyrics + 1
                 row == [LyricId |-> id, Words |-> body.words,
                         SongTitle |-> body.songTitle,
                         Language |-> body.language,
                         SpotLink |-> OrNull(body.spotLink),
                         ImageUrl |-> OrNull(body.imageUrl),
                         PreviewLink |-> OrNull(body.previewLink),
                         PerformerId |-> body.performerId.n]
                 db2 == [db EXCEPT !.Lyrics = @ \cup {row}, !.seqLyrics = id]
                 created == CHOOSE r \in LyricRows(db2, Num(id)) : TRUE
             IN  Res(db2, 201, mapLyric(created),
                     <<"SELECT Performers", "INSERT Lyrics", "SELECT Lyrics">>)

\* POST /api/lyrics
SqPostLyric(db, body) ==
    LET bad == LyricInvalid(body.words, body.songTitle, body.language,
                            body.performerId)
    IN  IF bad # ""
        THEN Res(db, 400, Msg(bad), <<>>)
        ELSE IF PerformerRows(db, body.performerId) = {}
        THEN Res(db, 404, Msg("Performer bestaat niet"), <<"SELECT Performers">>)
        ELSE IF \E f \in LyricTextFields : ~Bindable(body[f])
        THEN SqFail(db, <<"SELECT Performers", "INSERT Lyrics">>)
        ELSE LET id == db.seqLyrics + 1
                 row == [LyricId |-> id, Words |-> body.words,
                         SongTitle |-> body.songTitle,
                         Language |-> body.language,
                         SpotLink |-> OrNull(body.spotLink),
                         ImageUrl |-> OrNull(body.imageUrl),
                         PreviewLink |-> OrNull(body.previewLink),
                         PerformerId |-> body.performerId.n]
                 db2 == [db EXCEPT !.Lyrics = @ \cup {row}, !.seqLyrics = id]
                 created == CHOOSE r \in LyricRows(db2, Num(id)) : TRUE
             IN  Res(db2, 201, mapLyric(created),
                     <<"SELECT Performers", "INSERT Lyrics", "SELECT Lyrics">>)

\* The row PUT /api/lyrics/:id would write if the optional link fields were
\* taken from the body alone.
PutLyricReplaced(existing, body) ==
    [words |-> Default(body.words, existing.Words),
     songTitle |-> Default(body.songTitle, existing.SongTitle),
     language |-> Default(body.language, existing.Language),
     spotLink |-> body.spotLink,
     imageUrl |-> body.imageUrl,
     previewLink |-> body.previewLink,
     performerId |-> Default(body.performerId, Num(existing.PerformerId))]

\* The row PUT /api/lyrics/:id writes: a field missing from the body takes
\* the existing row's value.
PutLyricMerged(existing, body) ==
    [words |-> Default(body.words, existing.Words),
     songTitle |-> Default(body.songTitle, existing.SongTitle),
     language |-> Default(body.language, existing.Language),
     spotLink |-> Default(body.spotLink, existing.SpotLink),
     imageUrl |-> Default(body.imageUrl, existing.ImageUrl),
     previewLink |-> Default(body.previewLink, existing.PreviewLink),
     performerId |-> Default(body.performerId, Num(existing.PerformerId))]

\* PUT /api/lyrics/:id
SqPutLyric(db, param, body) ==
    LET id == ToNumber(param)
        found == LyricRows(db, id)
    IN  IF found = {}
        THEN Res(db, 404, Msg("Lyric not found"), <<"SELECT Lyrics">>)
        ELSE
        LET existing == CHOOSE r \in found : TRUE
            m == PutLyricMerged(existing, body)
            bad == LyricInvalid(m.words, m.songTitle, m.language, m.performerId)
        IN  IF bad # ""
            THEN Res(db, 400, Msg(bad), <<"SELECT Lyrics">>)
            ELSE IF PerformerRows(db, m.performerId) = {}
            THEN Res(db, 404, Msg("Performer bestaat niet"),
                     <<"SELECT Lyrics", "SELECT Performers">>)
            ELSE IF \E f \in LyricTextFields : ~Bindable(m[f])
            THEN SqFail(db, <<"SELECT Lyrics", "SELECT Performers",
                              "UPDATE Lyrics">>)
            ELSE LET row == [LyricId |-> existing.LyricId, Words |-> m.words,
                             SongTitle |-> m.songTitle, Language |-> m.language,
                             SpotLink |-> OrNull(m.spotLink),
                             ImageUrl |-> OrNull(m.imageUrl),
                             PreviewLink |-> OrNull(m.previewLink),
                             PerformerId |-> m.performerId.n]
                     db2 == [db EXCEPT !.Lyrics = (@ \ found) \cup {row}]
                     updated == CHOOSE r \in LyricRows(db2, id) : TRUE
                 IN  Res(db2, 200, mapLyric(updated),
                         <<"SELECT Lyrics", "SELECT Performers", "UPDATE Lyrics",
                           "SELECT Lyrics">>)

\* DELETE /api/lyrics/:id that answers 204 without deleting the row.
SqDeleteLyricKeepsRow(db, param) ==
    LET rows == LyricRows(db, ToNumber(param))
    IN  IF rows = {}
        THEN Res(db, 404, Msg("Lyric not found"), <<"DELETE Lyrics">>)
        ELSE Res(db, 204, NoBody, <<"DELETE Lyrics">>)

\* DELETE /api/lyrics/:id
SqDeleteLyric(db, param) ==
    LET rows == LyricRows(db, ToNumber(param))
    IN  IF rows = {}
        THEN Res(db, 404, Msg("Lyric not found"), <<"DELETE Lyrics">>)
        ELSE Res([db EXCEPT !.Lyrics = @ \ rows], 204, NoBody,
                 <<"DELETE Lyrics">>)


\* POST /admin/import-performers as it would run if a text body were read,
\* the table had the upsert's columns and the rows were written one by one
\* outside a transaction: the rows before the first one the CHECK on Name
\* refuses stay written.
AdminImportPerformersRowByRow(db, contentType, body, rows) ==
    LET bad == {i \in DOMAIN rows : LongerThan(rows[i].name, NameMax)}
        upto == IF bad = {} THEN Len(rows) ELSE SetMin(bad) - 1
        written == {[PerformerId |-> rows[i].id, Name |-> rows[i].name,
                     Genre |-> rows[i].genre] : i \in 1..upto}
        db2 == [db EXCEPT !.Performers =
                    {q \in @ : \A w \in written :
                                  w.PerformerId # q.PerformerId} \cup written]
    IN  IF contentType # "text/csv"
        THEN Res(db, 415,
                 [ok |-> FALSE,
                  error |-> "Send CSV with Content-Type: text/csv"], <<>>)
        ELSE IF body.t # "string" \/ Trim(body.s) = <<>>
        THEN Res(db, 400, [ok |-> FALSE, error |-> "Empty CSV body"], <<>>)
        ELSE IF rows = <<>>
        THEN Res(db, 400, [ok |-> FALSE, error |-> "No valid data rows found"],
                 <<>>)
        ELSE IF bad # {}
        THEN Res(db2, 500,
                 [ok |-> FALSE, error |-> "CHECK constraint failed"],
                 <<"INSERT performers">>)
        ELSE Res(db2, 200, [ok |-> TRUE, imported |-> Len(rows)],
                 <<"INSERT performers">>)

\* POST /admin/import-performers.  body is what the middleware left in
\* req.body and rows the data rows lines 143-176 read out of a text body.
\* Only express.json() is mounted, so a text/csv body is never read: req.body
\* is {} or undefined, depending on the body parser's version.  A text body
\* with data rows would get as far as the prepare of the upsert, which throws
\* because the table Performers (SQLite names are case-insensitive, so the
\* CREATE TABLE IF NOT EXISTS performers does nothing) has no column
\* created_at; the transaction that writes the rows is never run.
AdminImportPerformers(db, contentType, body, rows) ==
    IF contentType # "text/csv"
    THEN Res(db, 415,
             [ok |-> FALSE, error |-> "Send CSV with Content-Type: text/csv"],
             <<>>)
    ELSE IF Truthy(body) /\ body.t # "string"
    THEN Res(db, 500,
             [ok |-> FALSE, error |-> "csvText.trim is not a function"], <<>>)
    ELSE IF ~Truthy(body) \/ Trim(body.s) = <<>>
    THEN Res(db, 400, [ok |-> FALSE, error |-> "Empty CSV body"], <<>>)
    ELSE IF rows = <<>>
    THEN Res(db, 400, [ok |-> FALSE, error |-> "No valid data rows found"],
             <<>>)
    ELSE Res(db, 500,
             [ok |-> FALSE,
              error |-> "table performers has no column named created_at"],
             <<"CREATE TABLE IF NOT EXISTS performers">>)

\* POST /admin/reset-db.  The console.log reads dbPath inside the block that
\* declares it with const two lines further down: a ReferenceError, caught
\* by the handler's own catch, before any statement runs.
AdminResetDb(db) ==
    Res(db, 500,
        [ok |-> FALSE,
         error |-> "Cannot access 'dbPath' before initialization"], <<>>)


\* ========================================================== Postgres variant
\* The store of the Postgres variant.  Its schema is not created by the
\* program; the statements show performers(performer_id, name) with a unique
\* constraint on the text column name (`on conflict (name)`) and lyrics(lyric_id, performer_id, title, body, language, spotlink,
\* classic) with a foreign key to performers.
EmptyPg(onDelete) ==
    [performers |-> {}, lyrics |-> {}, seqPerformers |-> 0, seqLyrics |-> 0,
     onDelete |-> onDelete]

\* What the schema's foreign key does to a DELETE of a referenced performer.
OnDeleteActions == {"cascade", "restrict"}

\* A handler without try/catch: the rejected promise of the failed query is
\* handled by nobody.
PgFailUnhandled(pg, message, stmts) == Unhandled(pg, stmts)

\* The catch-all error handler: 500, with the error's message as detail.
PgFail(pg, message, stmts) ==
    Res(pg, 500, [error |-> "Internal Server Error", detail |-> message], stmts)

\* A value bound to an integer column or compared with one: the driver sends
\* its text, the server parses it as an integer or raises 22P02.
PgIsInt(v) ==
    \/ IsInteger(v)
    \/ (v.t = "string" /\ IsInteger(ToNumber(v.s)))
PgInt(v) == IF v.t = "string" THEN ToNumber(v.s).n ELSE v.n

\* select performer_id as "performerId", name
PgPerformerJson(r) == [performerId |-> r.performer_id, name |-> r.name]

PgLyricJson(r) ==
    [lyricId |-> r.lyric_id, performerId |-> r.performer_id, title |-> r.title,
     body |-> r.body, language |-> r.language, spotLink |-> r.spotlink,
     classic |-> r.classic]

\* Every order of the rows of S that an ORDER BY on Key allows: rows of equal
\* key may come in any order.
Orderings(S, key) ==
    {q \in [1..Cardinality(S) -> S] :
        /\ \A i, j \in 1..Cardinality(S) : i # j => q[i] # q[j]
        /\ \A i, j \in 1..Cardinality(S) :
              i < j => ~StrLess(key[q[j]], key[q[i]])}

LowerName(r) == Lower(r.name.s)
LowerTitle(r) == Lower(r.title.s)

\* GET /api/performers: the answers the handler can give.
PgListPerformers(pg) ==
    {Res(pg, 200, [i \in 1..Len(q) |-> PgPerformerJson(q[i])],
         <<"SELECT performers">>) : q \in Orderings(pg.performers,
                                   [r \in pg.performers |-> LowerName(r)])}

\* POST /api/performers that stores the name as sent, without name.trim().
PgPostPerformerUntrimmed(pg, body) ==
    IF ~Truthy(body.name) \/ body.name.t # "string"
    THEN {Res(pg, 400, Err("name is required"), <<>>)}
    ELSE
    LET name == body.name
        conflict == {r \in pg.performers : r.name = name}
    IN  IF conflict = {}
        THEN LET id == pg.seqPerformers + 1
                 row == [performer_id |-> id, name |-> name]
             IN  {Res([pg EXCEPT !.performers = @ \cup {row},
                                 !.seqPerformers = id],
                      201, PgPerformerJson(row), <<"INSERT performers">>)}
        ELSE LET existing == {r \in pg.performers :
                                 Lower(r.name.s) = Lower(name.s)}
             IN  {Res(pg, 200, PgPerformerJson(r),
                      <<"INSERT performers", "SELECT performers">>) :
                    r \in existing}

\* POST /api/performers: the answers the handler can give.  The insert does
\* nothing when a row has exactly the trimmed name; the follow-up select
\* compares lower(name) and the handler answers with its first row, in
\* whatever order the server returns the matching rows.
PgPostPerformer(pg, body) ==
    IF ~Truthy(body.name) \/ body.name.t # "string"
    THEN {Res(pg, 400, Err("name is required"), <<>>)}
    ELSE
    LET name == Str(Trim(body.name.s))
        conflict == {r \in pg.performers : r.name = name}
    IN  IF conflict = {}
        THEN LET id == pg.seqPerformers + 1
                 row == [performer_id |-> id, name |-> name]
             IN  {Res([pg EXCEPT !.performers = @ \cup {row},
                                 !.seqPerformers = id],
                      201, PgPerformerJson(row), <<"INSERT performers">>)}
        ELSE LET existing == {r \in pg.performers :
                                 Lower(r.name.s) = Lower(name.s)}
             IN  {Res(pg, 200, PgPerformerJson(r),
                      <<"INSERT performers", "SELECT performers">>) :
                    r \in existing}

\* POST /api/performers up to its first await: the insert with `on conflict
\* (name) do nothing`.  rows is what the statement returns.
PgPostPerformerInsert(pg, name) ==
    IF \E r \in pg.performers : r.name = name
    THEN [db |-> pg, rows |-> {}]
    ELSE LET row == [performer_id |-> pg.seqPerformers + 1, name |-> name]
         IN  [db |-> [pg EXCEPT !.performers = @ \cup {row},
                                !.seqPerformers = @ + 1],
              rows |-> {row}]

\* POST /api/performers after an insert that returned no row: the select by
\* lower(name) on the store as it is by then, and the answer.  With no row
\* selected the handler falls through to res.status(201).json(rows[0]) with
\* rows[0] undefined.
PgPostPerformerFetch(pg, name) ==
    LET existing == {r \in pg.performers : Lower(r.name.s) = Lower(name.s)}
    IN  IF existing # {}
        THEN {Res(pg, 200, PgPerformerJson(r),
                  <<"INSERT performers", "SELECT performers">>) :
                r \in existing}
        ELSE {Res(pg, 201, NoBody,
                  <<"INSERT performers", "SELECT performers">>)}

\* DELETE /api/performers/:id
PgDeletePerformer(pg, param) ==
    LET id == ToNumber(param)
        rows == {r \in pg.performers : r.performer_id = id.n}
        refs == {l \in pg.lyrics : l.performer_id = id.n}
    IN  IF ~IsInteger(id)
        THEN PgFail(pg, "invalid input syntax for type integer",
                    <<"DELETE performers">>)
        ELSE IF rows # {} /\ refs # {} /\ pg.onDelete = "restrict"
        THEN PgFail(pg, "violates foreign key constraint",
                    <<"DELETE performers">>)
        ELSE Res([pg EXCEPT !.performers = @ \ rows, !.lyrics = @ \ refs],
                 204, NoBody, <<"DELETE performers">>)

\* POST /api/lyrics
PgPostLyric(pg, body) ==
    IF ~Truthy(body.performerId) \/ ~Truthy(body.title)
    THEN Res(pg, 400, Err("performerId and title are required"), <<>>)
    ELSE IF ~PgIsInt(body.performerId)
    THEN PgFail(pg, "invalid input syntax for type integer",
                <<"INSERT lyrics">>)
    ELSE IF \A r \in pg.performers : r.performer_id # PgInt(body.performerId)
    THEN Res(pg, 409, Err("Unknown performerId (FK violation)"),
             <<"INSERT lyrics">>)
    ELSE LET id == pg.seqLyrics + 1
             row == [lyric_id |-> id,
                     performer_id |-> PgInt(body.performerId),
                     title |-> body.title,
                     body |-> Default(body.body, Null),
                     language |-> Default(body.language, Null),
                     spotlink |-> Default(body.spotLink, Null),
                     classic |-> Default(body.classic, Null)]
         IN  Res([pg EXCEPT !.lyrics = @ \cup {row}, !.seqLyrics = id],
                 201, PgLyricJson(row), <<"INSERT lyrics">>)

\* GET /api/performers/:id/lyrics: the answers the handler can give.
PgListLyricsOf(pg, param) ==
    LET id == ToNumber(param)
        rows == {l \in pg.lyrics : l.performer_id = id.n}
    IN  IF ~IsInteger(id)
        THEN {PgFail(pg, "invalid input syntax for type integer",
                     <<"SELECT lyrics">>)}
        ELSE {Res(pg, 200, [i \in 1..Len(q) |-> PgLyricJson(q[i])],
                  <<"SELECT lyrics">>) : q \in Orderings(rows, [r \in rows |-> LowerTitle(r)])}

\* GET /api/lyrics/:id
PgGetLyric(pg, param) ==
    LET id == ToNumber(param)
        rows == {l \in pg.lyrics : l.lyric_id = id.n}
    IN  IF ~IsInteger(id) \/ id.n <= 0
        THEN Res(pg, 400, Err("Invalid lyric id"), <<>>)
        ELSE IF rows = {}
        THEN Res(pg, 404, Err("Lyric not found"), <<"SELECT lyrics">>)
        ELSE Res(pg, 200, PgLyricJson(CHOOSE r \in rows : TRUE),
                 <<"SELECT lyrics">>)


\* ===================================================================== state
\* The handlers keep nothing between requests: the program's state is the
\* store.  What a request is answered is the value of its handler above.
VARIABLES
    variant,    \* which program runs: "sqlite" (index.js) or "pg"
    db,         \* the SQLite database file
    pg,         \* the Postgres database
    scen,       \* progress of the create/get/delete walk-through of section 8
    pend,       \* the POST /api/performers (Postgres) waiting for its select
    proc        \* the process: "up", "survived" (up after a request that
                \* failed), or "down"

vars == <<variant, db, pg, scen, pend, proc>>

NoPend == [pc |-> "idle", name |-> Undef]

NoScen == [step |-> 0, P |-> <<>>, L |-> <<>>, st |-> <<>>, nested |-> Undef]

Init ==
    /\ variant \in {"sqlite", "pg"}
    /\ db = SeedDb
    /\ pg \in {EmptyPg(a) : a \in IF variant = "pg" THEN OnDeleteActions
                                                   ELSE {"cascade"}}
    /\ scen = NoScen
    /\ pend = NoPend
    /\ proc = "up"

\* -------------------------------------------------------------------- inputs
Abc == <<"a", "b", "c">>
MaxId == IF MaxPerformerId > MaxLyricId THEN MaxPerformerId ELSE MaxLyricId

\* :id path parameters a client sends: every id the counters can reach, one
\* beyond, and text that is no number.
IdParams == {IdText(i) : i \in 1..(MaxId + 1)} \cup {Abc}

Blank == Str(<<" ">>)
Name100 == Str(Rep("b", NameMax))
Name101 == Str(Rep("b", NameMax + 1))

\* name values of a performer body.
SqNameInputs == {Undef, Str(<<>>), Blank, Name100, Name101, True}

PgNameInputs ==
    {Undef, Str(<<>>), Blank, Str(<<"a">>), Str(<<" ", "a">>), Str(<<"A">>),
     Name101}

\* Bodies of POST /api/performers.
SqPerformerPosts == [name : SqNameInputs, genre : {Undef}]
PgPerformerPosts == [name : PgNameInputs, genre : {Undef}]

\* Bodies of PUT /api/performers/:id.
PerformerPuts == [name : {Undef, Blank, Name101}, genre : {Undef}]

\* performerId values of a lyric body.
PerformerIdInputs ==
    {Num(i) : i \in 0..MaxPerformerId}
        \cup {Undef, Null, Frac(1), Str(<<"1">>), Str(Abc)}

W == Str(<<"w">>)
T == Str(<<"t">>)
Nl == Str(<<"n", "l">>)
Link == Str(<<"s">>)
Img == Str(<<"i">>)
Prev == Str(<<"p">>)

LyricBody(words, songTitle, language, spotLink, imageUrl, previewLink, pid) ==
    [words |-> words, songTitle |-> songTitle, language |-> language,
     spotLink |-> spotLink, imageUrl |-> imageUrl,
     previewLink |-> previewLink, performerId |-> pid]

\* Bodies of POST /api/lyrics (SQLite variant): a valid text with every
\* performerId, and one body for each way a text field can be wrong.
LyricPosts ==
    {LyricBody(W, T, Nl, Undef, Undef, Undef, p) : p \in PerformerIdInputs}
        \cup {LyricBody(w, T, Nl, Undef, Undef, Undef, Num(1)) :
                w \in {Undef, Str(Rep("w", WordsMax + 1))}}
        \cup {LyricBody(W, t, Nl, Undef, Undef, Undef, Num(1)) :
                t \in {Undef, Str(Rep("t", TitleMax + 1))}}
        \cup {LyricBody(W, T, Undef, Undef, Undef, Undef, Num(1)),
              LyricBody(W, T, Nl, Link, Img, Prev, Num(1))}

\* Bodies of PUT /api/lyrics/:id: only a performerId, or one wrong text field.
LyricPuts ==
    {LyricBody(Undef, Undef, Undef, Undef, Undef, Undef, p) :
        p \in PerformerIdInputs}
        \cup {LyricBody(w, Undef, Undef, Undef, Undef, Undef, Undef) :
                w \in {Str(<<>>), Null}}
        \cup {LyricBody(Undef, Str(Rep("t", TitleMax + 1)), Undef, Undef, Undef,
                        Undef, Undef),
              LyricBody(Undef, Undef, Str(<<>>), Undef, Undef, Undef, Undef)}

\* Requests to POST /admin/import-performers: the content type, what the
\* JSON body parser left in req.body, and the rows a text body would hold.
ImportRow(id, name) == [id |-> id, name |-> name, genre |-> Null]
ImportRequests ==
    [contentType : {"text/csv", "application/json"},
     body : {Undef, Obj},
     rows : {<<ImportRow(1, Str(<<"a">>)), ImportRow(4, Name101)>>}]

PgLyricBody(pid, title) ==
    [performerId |-> pid, title |-> title, body |-> Undef, language |-> Undef,
     spotLink |-> Undef, classic |-> Undef]

\* Bodies of POST /api/lyrics (Postgres variant).
PgLyricPosts ==
    {PgLyricBody(p, T) : p \in PerformerIdInputs}
        \cup {PgLyricBody(Num(1), Undef)}

\* ------------------------------------------------------------------- actions
Free == scen.step = 0 /\ proc # "down"

\* The process after a request that ended as r did.
After(r) ==
    IF r.end = "crash" THEN "down"
    ELSE IF r.status >= 500 THEN "survived"
    ELSE proc
Sqlite == variant = "sqlite" /\ Free
Postgres == variant = "pg" /\ Free

\* The store takes the handler's result; the id counters stop at the bounds.
SqStep(r) ==
    /\ r.db.seqPerformers <= MaxPerformerId
    /\ r.db.seqLyrics <= MaxLyricId
    /\ db' = r.db
    /\ proc' = After(r)
    /\ UNCHANGED <<variant, pg, scen, pend>>

PgStep(r) ==
    /\ r.db.seqPerformers <= MaxPgPerformerId
    /\ r.db.seqLyrics <= MaxPgLyricId
    /\ pg' = r.db
    /\ proc' = After(r)
    /\ UNCHANGED <<variant, db, scen, pend>>

SqGetPerformers == Sqlite /\ SqStep(SqListPerformers(db))

SqGetPerformerById ==
    Sqlite /\ \E id \in IdParams : SqStep(SqGetPerformer(db, id))

SqCreatePerformer ==
    Sqlite /\ \E b \in SqPerformerPosts : SqStep(SqPostPerformer(db, b))

SqUpdatePerformer ==
    /\ Sqlite
    /\ \E id \in IdParams, b \in PerformerPuts : SqStep(SqPutPerformer(db, id, b))

SqRemovePerformer ==
    Sqlite /\ \E id \in IdParams : SqStep(SqDeletePerformer(db, id))

SqGetLyrics == Sqlite /\ SqStep(SqListLyrics(db))

SqGetLyricById == Sqlite /\ \E id \in IdParams : SqStep(SqGetLyric(db, id))

SqGetLyricsOfPerformer ==
    Sqlite /\ \E id \in IdParams : SqStep(SqListLyricsOf(db, id))

SqCreateLyric == Sqlite /\ \E b \in LyricPosts : SqStep(SqPostLyric(db, b))

SqUpdateLyric ==
    /\ Sqlite
    /\ \E id \in IdParams, b \in LyricPuts : SqStep(SqPutLyric(db, id, b))

SqRemoveLyric == Sqlite /\ \E id \in IdParams : SqStep(SqDeleteLyric(db, id))

SqImportPerformers ==
    /\ Sqlite
    /\ \E q \in ImportRequests :
          SqStep(AdminImportPerformers(db, q.contentType, q.body, q.rows))

SqResetDb == Sqlite /\ SqStep(AdminResetDb(db))

PgGetPerformers == Postgres /\ \E r \in PgListPerformers(pg) : PgStep(r)

PgCreatePerformer ==
    /\ Postgres
    /\ \E b \in PgPerformerPosts : \E r \in PgPostPerformer(pg, b) : PgStep(r)

\* POST /api/performers whose insert met a stored name: the handler awaits
\* the select while other requests are served.
PgCreatePerformerConflict ==
    /\ Postgres
    /\ pend.pc = "idle"
    /\ \E b \in PgPerformerPosts :
          /\ Truthy(b.name) /\ b.name.t = "string"
          /\ PgPostPerformerInsert(pg, Str(Trim(b.name.s))).rows = {}
          /\ pend' = [pc |-> "fetch", name |-> Str(Trim(b.name.s))]
    /\ UNCHANGED <<variant, db, pg, scen, proc>>

PgCreatePerformerFetch ==
    /\ variant = "pg"
    /\ pend.pc = "fetch"
    /\ \E r \in PgPostPerformerFetch(pg, pend.name) :
          /\ pg' = r.db
          /\ proc' = After(r)
    /\ pend' = NoPend
    /\ UNCHANGED <<variant, db, scen>>

PgRemovePerformer ==
    Postgres /\ \E id \in IdParams : PgStep(PgDeletePerformer(pg, id))

PgCreateLyric == Postgres /\ \E b \in PgLyricPosts : PgStep(PgPostLyric(pg, b))

PgGetLyricsOfPerformer ==
    /\ Postgres
    /\ \E id \in IdParams : \E r \in PgListLyricsOf(pg, id) : PgStep(r)

PgGetLyricById == Postgres /\ \E id \in IdParams : PgStep(PgGetLyric(pg, id))

\* The walk-through of section 8, run from whatever the store holds, with no
\* other request in between: create performer P, create lyric L for P, get
\* L, delete P, delete L, delete P.  scen.st collects the statuses.
ScenPerformer == [name |-> Nirvana, genre |-> Grunge]
ScenLyric(pid) ==
    LyricBody(Str(<<"H", "e", "r", "e", " ", "w", "e", " ", "a", "r", "e", " ", "n", "o", "w">>), SeedTitle1, En, Undef, Undef, Undef, pid)

ScenStep(r, next) ==
    /\ db' = r.db
    /\ scen' = next
    /\ UNCHANGED <<variant, pg, pend, proc>>

ScenCreatePerformer ==
    /\ Sqlite
    /\ db.seqPerformers < MaxPerformerId
    /\ db.seqLyrics < MaxLyricId
    /\ LET r == SqPostPerformer(db, ScenPerformer)
       IN  ScenStep(r, [scen EXCEPT !.step = 1, !.st = <<r.status>>,
                                   !.P = IF r.status = 201
                                         THEN IdText(r.body.performerId)
                                         ELSE <<>>])

ScenCreateLyric ==
    /\ scen.step = 1
    /\ LET r == SqPostLyric(db, ScenLyric(ToNumber(scen.P)))
       IN  ScenStep(r, [scen EXCEPT !.step = 2, !.st = Append(@, r.status),
                                   !.L = IF r.status = 201
                                         THEN IdText(r.body.lyricId)
                                         ELSE <<>>])

ScenGetLyric ==
    /\ scen.step = 2
    /\ LET r == SqGetLyric(db, scen.L)
       IN  ScenStep(r, [scen EXCEPT !.step = 3, !.st = Append(@, r.status),
                                   !.nested = IF r.status = 200
                                              THEN r.body.performer.name
                                              ELSE Undef])

ScenDeletePerformer ==
    /\ scen.step = 3
    /\ LET r == SqDeletePerformer(db, scen.P)
       IN  ScenStep(r, [scen EXCEPT !.step = 4, !.st = Append(@, r.status)])

ScenDeleteLyric ==
    /\ scen.step = 4
    /\ LET r == SqDeleteLyric(db, scen.L)
       IN  ScenStep(r, [scen EXCEPT !.step = 5, !.st = Append(@, r.status)])

ScenDeletePerformerAgain ==
    /\ scen.step = 5
    /\ LET r == SqDeletePerformer(db, scen.P)
       IN  ScenStep(r, [scen EXCEPT !.step = 6, !.st = Append(@, r.status)])

Scenario ==
    \/ ScenCreatePerformer
    \/ ScenCreateLyric
    \/ ScenGetLyric
    \/ ScenDeletePerformer
    \/ ScenDeleteLyric
    \/ ScenDeletePerformerAgain

Requests ==
    \/ SqGetPerformers
    \/ SqGetPerformerById
    \/ SqCreatePerformer
    \/ SqUpdatePerformer
    \/ SqRemovePerformer
    \/ SqGetLyrics
    \/ SqGetLyricById
    \/ SqGetLyricsOfPerformer
    \/ SqCreateLyric
    \/ SqUpdateLyric
    \/ SqRemoveLyric
    \/ SqImportPerformers
    \/ SqResetDb
    \/ PgGetPerformers
    \/ PgCreatePerformer
    \/ PgCreatePerformerConflict
    \/ PgCreatePerformerFetch
    \/ PgRemovePerformer
    \/ PgCreateLyric
    \/ PgGetLyricsOfPerformer
    \/ PgGetLyricById

Next == Requests \/ Scenario

Spec == Init /\ [][Next]_vars


\* ==================================================================== claims
Range(q) == {q[i] : i \in DOMAIN q}

\* C1: SQLite variant: after any sequence of POST, PUT and DELETE requests on
\* /api/performers and /api/lyrics, every stored lyric's PerformerId is the
\* id of a performer that is currently stored.
C1_LyricsReferenceStoredPerformers ==
    variant = "sqlite" =>
        \A l \in db.Lyrics :
            \E p \in db.Performers : p.PerformerId = l.PerformerId

\* A lyric has been posted, a seeded lyric has been moved to another
\* performer by PUT, and a performer has been deleted.
C1_Witness ==
    /\ variant = "sqlite"
    /\ \E l \in db.Lyrics : l.LyricId > 2
    /\ \E l \in db.Lyrics : l.LyricId <= 2 /\ l.PerformerId # l.LyricId
    /\ Cardinality(db.Performers) < db.seqPerformers

\* C2: SQLite variant: DELETE /api/performers/:id on a performer referenced
\* by at least one lyric answers 409 and leaves the store as it was; the
\* performer and each of its lyrics are still returned by the GET routes.
C2_ReferencedPerformerDeleteIs409 ==
    variant = "sqlite" =>
        \A id \in IdParams :
            LET v == ToNumber(id)
                r == SqDeletePerformer(db, id)
            IN  (PerformerRows(db, v) # {} /\ LyricsOf(db, v) # {}) =>
                    /\ r.status = 409
                    /\ r.db = db
                    /\ SqGetPerformer(r.db, id).status = 200
                    /\ SqGetPerformer(r.db, id).body \in
                          {mapPerformer(p) : p \in PerformerRows(db, v)}
                    /\ \A l \in LyricsOf(db, v) :
                          LET g == SqGetLyric(r.db, IdText(l.LyricId))
                          IN  g.status = 200 /\ g.body.lyric = mapLyric(l)
                    /\ Range(SqListLyricsOf(r.db, id).body) =
                          {mapLyric(l) : l \in LyricsOf(db, v)}

\* In the walk-through, DELETE on the performer that lyric L references has
\* been answered 409, and the performer and the lyric are still stored.
C2_Witness ==
    /\ scen.step = 4
    /\ scen.st[4] = 409
    /\ PerformerRows(db, ToNumber(scen.P)) # {}
    /\ \E l \in LyricsOf(db, ToNumber(scen.P)) : IdText(l.LyricId) = scen.L

\* C10: SQLite variant, from any store state: create performer P (name
\* Nirvana), create lyric L for P, GET L, DELETE P, DELETE L, DELETE P, with
\* no other request in between, are answered 201, 201, 200 (the body nesting
\* a performer whose name is P's name), 409, 204, 204.
ScenExpected == <<201, 201, 200, 409, 204, 204>>

C10_WalkThroughStatuses ==
    /\ \A k \in 1..scen.step : scen.st[k] = ScenExpected[k]
    /\ scen.step >= 3 => scen.nested = ScenPerformer.name

\* The walk-through has run to its end and P and L are gone.
C10_Witness ==
    /\ scen.step = 6
    /\ PerformerRows(db, ToNumber(scen.P)) = {}
    /\ LyricRows(db, ToNumber(scen.L)) = {}

\* ---- inputs the request contracts below are evaluated on
\* Names POST /api/performers must refuse: empty, blank, too long.
RefusedNames == {Str(<<>>), Blank, Str(<<" ", " ">>), Name101}

\* Names POST /api/performers must accept.
AcceptedNames ==
    {Str(<<"a">>), Str(<<"A">>), Str(<<" ", "a", " ">>), Str(<<"a", " ", "b">>),
     Nirvana, Name100}

PerformerBody(name) == [name |-> name, genre |-> Undef]

\* The performer table holds a row with the integer value of v.
PgKnows(store, v) ==
    PgIsInt(v) /\ \E r \in store.performers : r.performer_id = PgInt(v)

\* C3: POST /api/lyrics with a performerId that matches no stored performer
\* is answered 404 or 409 (never 201, never 500), in both variants.  The
\* bodies are those the handler's own validation lets through.
C3_UnknownPerformerIs404Or409 ==
    /\ variant = "sqlite" =>
          \A b \in LyricPosts :
              LET r == SqPostLyric(db, b)
              IN  (r.status # 400 /\ PerformerRows(db, b.performerId) = {}) =>
                      r.status \in {404, 409}
    /\ variant = "pg" =>
          \A b \in PgLyricPosts :
              LET r == PgPostLyric(pg, b)
              IN  (r.status # 400 /\ ~PgKnows(pg, b.performerId)) =>
                      r.status \in {404, 409}

\* C4: POST /api/performers with a name that is empty, whitespace-only or
\* longer than 100 characters is answered 400 and writes no row, in both
\* variants.
C4_RefusedNameIs400 ==
    \A n \in RefusedNames :
        /\ variant = "sqlite" =>
              LET r == SqPostPerformer(db, PerformerBody(n))
              IN  r.status = 400 /\ r.db.Performers = db.Performers
        /\ variant = "pg" =>
              \A r \in PgPostPerformer(pg, PerformerBody(n)) :
                  r.status = 400 /\ r.db.performers = pg.performers

BadPerformerPuts == {PerformerBody(n) : n \in {Undef, Str(<<>>), Name101}}
BadLyricPuts ==
    {LyricBody(Str(<<>>), Undef, Undef, Undef, Undef, Undef, Undef),
     LyricBody(Undef, Str(Rep("t", TitleMax + 1)), Undef, Undef, Undef, Undef,
               Undef),
     LyricBody(Undef, Undef, Null, Undef, Undef, Undef, Undef),
     LyricBody(Undef, Undef, Undef, Undef, Undef, Undef, Frac(1))}

C7_MissingIdIs404 ==
    \A id \in IdParams :
        LET v == ToNumber(id)
        IN  IsInteger(v) =>
            /\ (variant = "sqlite" /\ PerformerRows(db, v) = {}) =>
                  /\ SqGetPerformer(db, id).status = 404
                  /\ SqGetPerformer(db, id).db = db
                  /\ SqDeletePerformer(db, id).status = 404
                  /\ SqDeletePerformer(db, id).db = db
                  /\ \A b \in PerformerPuts :
                        /\ SqPutPerformer(db, id, b).status = 404
                        /\ SqPutPerformer(db, id, b).db = db
            /\ (variant = "sqlite" /\ LyricRows(db, v) = {}) =>
                  /\ SqGetLyric(db, id).status = 404
                  /\ SqGetLyric(db, id).db = db
                  /\ SqDeleteLyric(db, id).status = 404
                  /\ SqDeleteLyric(db, id).db = db
                  /\ \A b \in LyricPuts :
                        /\ SqPutLyric(db, id, b).status = 404
                        /\ SqPutLyric(db, id, b).db = db
            /\ (variant = "pg" /\ \A r \in pg.performers : r.performer_id # v.n) =>
                  /\ PgDeletePerformer(pg, id).status = 404
                  /\ PgDeletePerformer(pg, id).db = pg
            /\ (variant = "pg" /\ \A l \in pg.lyrics : l.lyric_id # v.n) =>
                  /\ PgGetLyric(pg, id).status = 404
                  /\ PgGetLyric(pg, id).db = pg

\* C8: Postgres variant, POST /api/performers: when the trimmed name is the
\* name of a stored performer the request adds no row and answers 200 with
\* that performer's id and name; it answers 201 only when it inserted a row;
\* repeating the POST does not add a performer of that name.
C8_InsertOrFetch ==
    variant = "pg" =>
        \A n \in AcceptedNames :
            LET name == Str(Trim(n.s))
                hit == {p \in pg.performers : p.name = name}
            IN  \A r \in PgPostPerformer(pg, PerformerBody(n)) :
                    /\ hit # {} =>
                          /\ r.status = 200
                          /\ r.db = pg
                          /\ r.body \in {PgPerformerJson(p) : p \in hit}
                    /\ r.status = 201 =>
                          /\ hit = {}
                          /\ Cardinality(r.db.performers) =
                                Cardinality(pg.performers) + 1
                    /\ \A r2 \in PgPostPerformer(r.db, PerformerBody(n)) :
                          {p \in r2.db.performers : p.name = name} =
                              {p \in r.db.performers : p.name = name}

\* Bodies of PUT /api/lyrics/:id the update contract is evaluated on: no
\* field, each field alone, every field but one, every field, null for the
\* optional fields, and each other performer.
X == Str(<<"x">>)
FullPut == LyricBody(X, X, X, X, X, X, Num(2))
NoPut == LyricBody(Undef, Undef, Undef, Undef, Undef, Undef, Undef)
PutFields ==
    {"words", "songTitle", "language", "spotLink", "imageUrl", "previewLink",
     "performerId"}
UpdatePuts ==
    {FullPut, NoPut}
        \cup {[NoPut EXCEPT ![f] = FullPut[f]] : f \in PutFields}
        \cup {[FullPut EXCEPT ![f] = Undef] : f \in PutFields}
        \cup {[NoPut EXCEPT ![f] = Null] :
                f \in {"spotLink", "imageUrl", "previewLink"}}
        \cup {[NoPut EXCEPT !.performerId = Num(i)] : i \in 1..MaxPerformerId}

\* The new value of a field: the old one when the body has no such field,
\* the body's otherwise.
Kept(sent, old, new) == new = IF sent.t = "undefined" THEN old ELSE sent

\* C9: PUT /api/lyrics/:id answered 200: every field absent from the body
\* keeps its stored value, every field present takes the submitted value,
\* the lyricId is unchanged, and no other row changes.
C9_PutLyricKeepsAbsentFields ==
    variant = "sqlite" =>
        \A id \in IdParams, b \in UpdatePuts :
            LET r == SqPutLyric(db, id, b)
            IN  r.status = 200 =>
                  \E old \in db.Lyrics :
                      /\ LyricRows(db, ToNumber(id)) = {old}
                      /\ \E new \in r.db.Lyrics :
                            /\ r.db = [db EXCEPT !.Lyrics = (@ \ {old}) \cup {new}]
                            /\ new.LyricId = old.LyricId
                            /\ r.body = mapLyric(new)
                            /\ Kept(b.words, old.Words, new.Words)
                            /\ Kept(b.songTitle, old.SongTitle, new.SongTitle)
                            /\ Kept(b.language, old.Language, new.Language)
                            /\ Kept(b.spotLink, old.SpotLink, new.SpotLink)
                            /\ Kept(b.imageUrl, old.ImageUrl, new.ImageUrl)
                            /\ Kept(b.previewLink, old.PreviewLink,
                                    new.PreviewLink)
                            /\ Kept(b.performerId, Num(old.PerformerId),
                                    Num(new.PerformerId))

\* A lyric posted with its three links for performer 1 has been moved to
\* another performer by a PUT that sent performerId only, and still has the
\* links.
C9_Witness ==
    /\ variant = "sqlite"
    /\ \E l \in db.Lyrics :
          /\ l.SpotLink = Link
          /\ l.ImageUrl = Img
          /\ l.PreviewLink = Prev
          /\ l.PerformerId # 1
          /\ SqPutLyric(db, IdText(l.LyricId), NoPut).status = 200

\* ---- what the routes answer in the current store
ValidPerformerPut == PerformerBody(Str(<<"a">>))

\* What the claims below look at in an answer r given in store: its status,
\* how the request ended, whether the store is as it was, whether a 5xx body
\* is one of the two fixed bodies, whether it is the catch-all handler's, and
\* the id counters it leaves.
Outcome(r, store) ==
    [status |-> r.status,
     end |-> r.end,
     kept |-> r.db = store,
     generic |-> /\ r.status >= 500
                 /\ \/ r.body = Msg("Internal server error")
                    \/ r.body = Err("Internal Server Error"),
     caught |-> /\ r.status >= 500
                /\ \/ r.body = Msg("Internal server error")
                   \/ /\ "ok" \notin DOMAIN r.body
                      /\ r.body.error = "Internal Server Error",
     seqs |-> <<r.db.seqPerformers, r.db.seqLyrics>>]

\* The answers of the /api routes of the SQLite variant to the requests of
\* the inputs above.
SqApiAnswers ==
    {Outcome(SqListPerformers(db), db), Outcome(SqListLyrics(db), db)}
        \cup {Outcome(SqGetPerformer(db, id), db) : id \in IdParams}
        \cup {Outcome(SqPostPerformer(db, b), db) : b \in SqPerformerPosts}
        \cup {Outcome(SqPutPerformer(db, id, b), db) :
                id \in IdParams, b \in PerformerPuts \cup {PerformerBody(True)}}
        \cup {Outcome(SqDeletePerformer(db, id), db) : id \in IdParams}
        \cup {Outcome(SqGetLyric(db, id), db) : id \in IdParams}
        \cup {Outcome(SqListLyricsOf(db, id), db) : id \in IdParams}
        \cup {Outcome(SqPostLyric(db, b), db) :
                b \in LyricPosts
                    \cup {LyricBody(W, T, Nl, True, Undef, Undef, Num(1))}}
        \cup {Outcome(SqPutLyric(db, id, b), db) :
                id \in IdParams,
                b \in LyricPuts \cup {[NoPut EXCEPT !.words = True]}}
        \cup {Outcome(SqDeleteLyric(db, id), db) : id \in IdParams}

\* The answers of the two /admin routes.
SqAdminAnswers ==
    {Outcome(AdminImportPerformers(db, q.contentType, q.body, q.rows), db) :
        q \in ImportRequests} \cup {Outcome(AdminResetDb(db), db)}

\* The answers of the routes of the Postgres variant.
PgApiAnswers ==
    {Outcome(r, pg) : r \in PgListPerformers(pg)}
        \cup UNION {{Outcome(r, pg) : r \in PgPostPerformer(pg, b)} :
                      b \in PgPerformerPosts}
        \cup {Outcome(PgDeletePerformer(pg, id), pg) : id \in IdParams}
        \cup {Outcome(PgPostLyric(pg, b), pg) : b \in PgLyricPosts}
        \cup UNION {{Outcome(r, pg) : r \in PgListLyricsOf(pg, id)} :
                      id \in IdParams}
        \cup {Outcome(PgGetLyric(pg, id), pg) : id \in IdParams}
        \cup (IF pend.pc = "fetch"
              THEN {Outcome(r, pg) : r \in PgPostPerformerFetch(pg, pend.name)}
              ELSE {})

ApiAnswers == IF variant = "sqlite" THEN SqApiAnswers ELSE PgApiAnswers

\* :id parameters and performerId values that are no positive integer.
BadIdParams == {Abc, <<"0">>, <<"-", "1">>, <<"1", ".", "5">>}
BadPerformerIds == {Num(0), Num(0 - 1), Frac(1), Str(Abc)}

\* r is a validation failure sent before the store was touched.
Rejected(r, store) == r.status = 400 /\ r.stmts = <<>> /\ r.db = store

\* C11: an :id path parameter of a by-id route, or a performerId of a lyric
\* body, that is not an integer or not positive is answered 400 without
\* being looked up in or written to the store.
C11_BadIdIs400 ==
    /\ variant = "sqlite" =>
          /\ \A id \in BadIdParams :
                /\ Rejected(SqGetPerformer(db, id), db)
                /\ Rejected(SqPutPerformer(db, id, ValidPerformerPut), db)
                /\ Rejected(SqDeletePerformer(db, id), db)
                /\ Rejected(SqGetLyric(db, id), db)
                /\ Rejected(SqPutLyric(db, id, NoPut), db)
                /\ Rejected(SqDeleteLyric(db, id), db)
          /\ \A v \in BadPerformerIds :
                /\ Rejected(SqPostLyric(db, LyricBody(W, T, Nl, Undef, Undef,
                                                      Undef, v)), db)
                /\ \A l \in db.Lyrics :
                      Rejected(SqPutLyric(db, IdText(l.LyricId),
                                          [NoPut EXCEPT !.performerId = v]), db)
    /\ variant = "pg" =>
          /\ \A id \in BadIdParams :
                /\ Rejected(PgGetLyric(pg, id), pg)
                /\ Rejected(PgDeletePerformer(pg, id), pg)
          /\ \A v \in BadPerformerIds :
                Rejected(PgPostLyric(pg, PgLyricBody(v, T)), pg)

\* C12: a request that fails for a reason that is no validation, not-found
\* or conflict is answered 500 with a fixed generic body that holds nothing
\* of the underlying error, by the catch-all handler of either variant.
C12_InternalErrorBodyIsGeneric ==
    \A r \in ApiAnswers :
        r.status >= 500 => (r.status = 500 /\ r.generic)

PageOf(v) == IF IsInteger(v) /\ v.n >= 1 THEN v.n ELSE 1
SizeOf(v) ==
    IF ~IsInteger(v) THEN 50
    ELSE IF v.n < 1 THEN 1
    ELSE IF v.n > 100 THEN 100
    ELSE v.n
Query(page, pageSize) == [page |-> page, pageSize |-> pageSize]
LyricIds(rows) == [i \in DOMAIN rows |-> rows[i].lyric.lyricId]

\* C14: GET /api/lyrics returns its rows in ascending id order and pages
\* them: with pageSize 2 page 1 holds the first two lyrics, page 2 the
\* following ones, and every lyric is on exactly one page.
C14_PagesPartitionInAscendingOrder ==
    variant = "sqlite" =>
        LET n == Cardinality(db.Lyrics)
            page(k) ==
                LyricIds(SqListLyricsPage(db, Query(Num(k), Num(2))).body)
        IN  /\ \A k \in 1..(n + 1) :
                  \A i, j \in DOMAIN page(k) : i < j => page(k)[i] < page(k)[j]
            /\ Len(page(1)) = IF n < 2 THEN n ELSE 2
            /\ \A l \in db.Lyrics :
                  Cardinality({k \in 1..(n + 1) :
                                  l.LyricId \in Range(page(k))}) = 1
            /\ \A k \in 1..n :
                  \A a \in Range(page(k)), b \in Range(page(k + 1)) : a < b

PageInputs == {Undef, Num(0 - 1), Num(0), Num(1), Num(2), Num(3)}
SizeInputs == {Undef, Num(0), Num(1), Num(2), Num(100), Num(101)}

\* C15: GET /api/lyrics: page defaults to 1 and is at least 1, pageSize
\* defaults to 50 and is kept within 1..100, and (page - 1) * pageSize rows
\* are skipped, for every page and pageSize.
C15_OffsetIsPageTimesSize ==
    variant = "sqlite" =>
        \A p \in PageInputs, z \in SizeInputs :
            LET n == Cardinality(db.Lyrics)
                skip == (PageOf(p) - 1) * SizeOf(z)
                left == IF n > skip THEN n - skip ELSE 0
                rows == SqListLyricsPage(db, Query(p, z)).body
            IN  Len(rows) = IF left < SizeOf(z) THEN left ELSE SizeOf(z)

\* Requests to POST /admin/import-performers the import contract is
\* evaluated on: those above and text bodies with no row, good rows only,
\* and a good row followed by one the CHECK on Name refuses.
Csv == Str(<<"c", "s", "v">>)
ImportChecks ==
    ImportRequests
        \cup [contentType : {"text/csv"},
              body : {Csv, Blank},
              rows : {<<>>,
                      <<ImportRow(1, Str(<<"a">>)), ImportRow(4, Str(<<"b">>))>>,
                      <<ImportRow(1, Str(<<"a">>)), ImportRow(4, Name101)>>}]

C17_CreatedOnlyWhenInserted ==
    variant = "pg" =>
        /\ pend.pc = "fetch" =>
              \A r \in PgPostPerformerFetch(pg, pend.name) : r.status # 201
        /\ \A b \in PgPerformerPosts :
              \A r \in PgPostPerformer(pg, b) :
                  r.status = 201 =>
                      \E w \in r.db.performers \ pg.performers :
                          r.body = PgPerformerJson(w)

\* C18: POST /admin/reset-db answers {ok: true, message: "Database cleared
\* successfully"} and leaves both tables empty, from any store.
C18_ResetClearsBothTables ==
    variant = "sqlite" =>
        LET r == AdminResetDb(db)
        IN  /\ r.status = 200
            /\ r.body = [ok |-> TRUE, message |-> "Database cleared successfully"]
            /\ r.db.Performers = {}
            /\ r.db.Lyrics = {}

\* C19: SQLite variant: the counters of sqlite_sequence are at least every
\* stored id and never go down; a created performer or lyric gets an id above
\* its table's counter, so no id is given twice; PUT leaves the ids alone.
C19_IdsAreNeverReused ==
    variant = "sqlite" =>
        /\ \A w \in db.Performers : w.PerformerId <= db.seqPerformers
        /\ \A l \in db.Lyrics : l.LyricId <= db.seqLyrics
        /\ \A r \in SqApiAnswers \cup SqAdminAnswers :
              /\ r.seqs[1] >= db.seqPerformers
              /\ r.seqs[2] >= db.seqLyrics
        /\ \A b \in SqPerformerPosts \cup {PerformerBody(n) : n \in AcceptedNames} :
              LET r == SqPostPerformer(db, b)
              IN  r.status = 201 =>
                      /\ r.body.performerId > db.seqPerformers
                      /\ r.db.seqPerformers = r.body.performerId
                      /\ r.db.Performers \ db.Performers =
                            {w \in r.db.Performers :
                                w.PerformerId = r.body.performerId}
                      /\ db.Performers \subseteq r.db.Performers
        /\ \A b \in LyricPosts :
              LET r == SqPostLyric(db, b)
              IN  r.status = 201 =>
                      /\ r.body.lyricId > db.seqLyrics
                      /\ r.db.seqLyrics = r.body.lyricId
                      /\ r.db.Lyrics \ db.Lyrics =
                            {l \in r.db.Lyrics : l.LyricId = r.body.lyricId}
                      /\ db.Lyrics \subseteq r.db.Lyrics
        /\ \A id \in IdParams :
              /\ \A b \in PerformerPuts \cup {ValidPerformerPut} :
                    LET r == SqPutPerformer(db, id, b)
                    IN  /\ {w.PerformerId : w \in r.db.Performers} =
                              {w.PerformerId : w \in db.Performers}
                        /\ r.status = 200 =>
                              r.body.performerId = ToNumber(id).n
              /\ \A b \in LyricPuts \cup UpdatePuts :
                    LET r == SqPutLyric(db, id, b)
                    IN  /\ {l.LyricId : l \in r.db.Lyrics} =
                              {l.LyricId : l \in db.Lyrics}
                        /\ r.status = 200 => r.body.lyricId = ToNumber(id).n

\* Performer 2 and lyric 2 were deleted and a performer and a lyric created:
\* the new rows have id 3, and the ids 2 are free.
C19_Witness ==
    /\ variant = "sqlite"
    /\ PerformerRows(db, Num(2)) = {} /\ PerformerRows(db, Num(3)) # {}
    /\ LyricRows(db, Num(2)) = {} /\ LyricRows(db, Num(3)) # {}
    /\ SqPostPerformer(db, ValidPerformerPut).body.performerId = 4

====
